---- MODULE Spec2Model ----
(***************************************************************************)
(* Load-time subsystem of hc2 (program_state.hpp): bundle extraction,      *)
(* code-object table, host/device global-symbol linker, executable table.  *)
(* The first Program_state of program_state.hpp (lines 1-513) is modelled  *)
(* as a multi-threaded state machine; the scan loop and the code-object    *)
(* table builder of the second, shared-object Program_state (lines         *)
(* 521-925) are modelled beside their first-version counterparts.          *)
(***************************************************************************)
EXTENDS Integers, Sequences, FiniteSets, TLC

(***************************************************************************)
(* Bounds of the model.                                                    *)
(***************************************************************************)
\* accessor / executable() calls one thread makes
MaxCalls == 1
\* driver calls that may fail in one behaviour
MaxFaults == 1
\* bundle entries written into one reserved-section byte range
MaxEntries == 3
\* containers the scan may append before the model stops following it
MaxScanOut == 4
MaxModules == 2

Threads == {"t1", "t2"}

(***************************************************************************)
(* ELF and HSA constants the code compares against.                        *)
(***************************************************************************)
STT_OBJECT == 1
STT_FUNC == 2
SHN_UNDEF == 0
\* hsa_isa_t{0}: the handle triple_to_hsa_isa gives for an unknown triple
NoIsa == 0
\* nullptr
Null == 0

(***************************************************************************)
(* Bundled-container format (code_object_bundle.hpp is not among the       *)
(* sources; modelled from the format described in the specification).      *)
(* A byte range is a sequence of cells.  A container is                    *)
(*   <<Magic, total size, triple_1, blob_1, ..., triple_k, blob_k>>        *)
(* so its total length is recoverable from its header.                     *)
(***************************************************************************)
Magic == 9
HeaderSize == 2
EntrySize == 2

\* target triples (cells) and the ISA handles they resolve to
TripleX == 21
TripleY == 22
TripleU == 23
IsaX == 1
IsaY == 2

triple_to_hsa_isa(t) ==
    CASE t = TripleX -> IsaX
      [] t = TripleY -> IsaY
      [] OTHER -> NoIsa

RECURSIVE FlattenEntries(_)
FlattenEntries(es) ==
    IF es = <<>> THEN <<>>
    ELSE <<Head(es).triple, Head(es).blob>> \o FlattenEntries(Tail(es))

\* what the compiler's bundler writes for a list of entries
EncodeContainer(es) ==
    <<Magic, HeaderSize + EntrySize * Len(es)>> \o FlattenEntries(es)

RECURSIVE EncodeAll(_)
EncodeAll(cs) ==
    IF cs = <<>> THEN <<>> ELSE EncodeContainer(Head(cs)) \o EncodeAll(Tail(cs))

\* Bundled_code_header{x.cbegin() + offset, x.cend()}: decode one container
\* at a 0-based offset; valid(tmp) is the field valid, bundles(tmp) the
\* field bundles, and size the declared total size (0 when invalid).
Bundled_code_header(x, offset) ==
    LET n == Len(x) - offset
        ok == /\ n >= HeaderSize
              /\ x[offset + 1] = Magic
              /\ x[offset + 2] >= HeaderSize
              /\ x[offset + 2] <= n
              /\ (x[offset + 2] - HeaderSize) % EntrySize = 0
        sz == IF ok THEN x[offset + 2] ELSE 0
        cnt == IF ok THEN (sz - HeaderSize) \div EntrySize ELSE 0
    IN  [valid |-> ok,
         size |-> sz,
         bundles |-> [k \in 1..cnt |->
                        [triple |-> x[offset + HeaderSize + EntrySize * (k - 1) + 1],
                         blob |-> x[offset + HeaderSize + EntrySize * (k - 1) + 2]]]]

(***************************************************************************)
(* kernel_sections_ (first version), lines 380-395: the size is handed     *)
(* out through read_bundle_size while the container is constructed, then   *)
(* the container is moved into r and the offset advanced by that size.     *)
(* One iteration of the while loop: st = [offset, r, more].                *)
(***************************************************************************)
ScanIter(x, st) ==
    LET tmp == Bundled_code_header(x, st.offset)
        read_bundle_size == tmp.size
    IN  IF ~(st.offset < Len(x)) THEN [st EXCEPT !.more = FALSE]
        ELSE IF tmp.valid
             THEN [offset |-> st.offset + read_bundle_size,
                   r |-> Append(st.r, tmp.bundles),
                   more |-> TRUE]
             ELSE [st EXCEPT !.more = FALSE]

(***************************************************************************)
(* shared_object_kernel_sections_ (second version), lines 788-801:         *)
(* r.push_back(std::move(tmp)); offset += tmp.size();  The size is read    *)
(* from the moved-from container; moved is the value that read yields.     *)
(***************************************************************************)
ScanIter2(x, st, moved) ==
    LET tmp == Bundled_code_header(x, st.offset)
    IN  IF ~(st.offset < Len(x)) THEN [st EXCEPT !.more = FALSE]
        ELSE IF tmp.valid
             THEN [offset |-> st.offset + moved,
                   r |-> Append(st.r, tmp.bundles),
                   more |-> TRUE]
             ELSE [st EXCEPT !.more = FALSE]

\* the values a read of size() on a moved-from Bundled_code_header may give:
\* the header's declared size when size() is kept in a scalar, the size of
\* the emptied entry list (header alone, or nothing) when it is derived.
MovedFromSizes(x, offset) ==
    {Bundled_code_header(x, offset).size, HeaderSize, 0}

\* the whole first-version loop over one byte range, appending to r
RECURSIVE ScanLoop(_, _)
ScanLoop(x, st) ==
    CHOOSE r \in { IF nx.more THEN ScanLoop(x, nx) ELSE nx.r : nx \in {ScanIter(x, st)} } :
        TRUE

RECURSIVE ScanAll(_, _)
ScanAll(ks, r) ==
    IF ks = <<>> THEN r
    ELSE CHOOSE out \in { ScanAll(Tail(ks), r1) :
                             r1 \in {ScanLoop(Head(ks), [offset |-> 0, r |-> r, more |-> TRUE])} } :
             TRUE

(***************************************************************************)
(* Tables are functions whose DOMAIN is the set of keys present.           *)
(***************************************************************************)
EmptyTable == [k \in {} |-> <<>>]

\* y[k] of std::unordered_map: the key is created, empty, when absent
Subscript(y, k) ==
    IF k \in DOMAIN y THEN y ELSE [j \in DOMAIN y \cup {k} |-> IF j = k THEN <<>> ELSE y[j]]

PushFront(y, k, v) ==
    [Subscript(y, k) EXCEPT ![k] = <<v>> \o @]

\* y[k].push_back(v)
PushBack(y, k, v) ==
    [Subscript(y, k) EXCEPT ![k] = Append(@, v)]

\* y.erase(k)
Erase(y, k) ==
    [j \in DOMAIN y \ {k} |-> y[j]]

InsertOrAssign(y, k, v) ==
    [j \in DOMAIN y \cup {k} |-> IF j = k THEN v ELSE y[j]]

\* r.emplace(k, v): the first writer wins
Emplace(y, k, v) ==
    IF k \in DOMAIN y THEN y ELSE [j \in DOMAIN y \cup {k} |-> IF j = k THEN v ELSE y[j]]

(***************************************************************************)
(* make_code_object_table_ (first version), lines 401-412.                 *)
(***************************************************************************)
RECURSIVE AddBundles(_, _)
AddBundles(bs, y) ==
    IF bs = <<>> THEN y
    ELSE AddBundles(Tail(bs),
                    PushBack(y, triple_to_hsa_isa(Head(bs).triple), Head(bs).blob))

make_code_object_table_NoErase(x, y) ==
    AddBundles(x, y)

make_code_object_table_(x, y) ==
    Erase(AddBundles(x, y), NoIsa)

\* code_object_table_ body, lines 420-424: the loop over kernel_sections_()
RECURSIVE CodeObjectTable(_, _)
CodeObjectTable(cs, y) ==
    IF cs = <<>> THEN y
    ELSE CodeObjectTable(Tail(cs), make_code_object_table_(Head(cs), y))

(***************************************************************************)
(* make_code_object_table_ (second version), lines 814-824: a reader is    *)
(* made for every entry, resolved or not, before the placeholder key is    *)
(* erased; make_code_object_reader (lines 555-570) calls the driver only   *)
(* for a non-empty blob and throws when the driver fails.  failAt is the   *)
(* index of the entry whose driver call fails (0: none).                   *)
(***************************************************************************)
make_code_object_reader(blob) ==
    IF blob > 0 THEN 1000 + blob ELSE Null

RECURSIVE AddBundles2(_, _, _, _)
AddBundles2(bs, k, y, failAt) ==
    IF k > Len(bs) THEN [tab |-> y, thrown |-> FALSE]
    ELSE LET t == Subscript(y, triple_to_hsa_isa(bs[k].triple))
         IN  IF k = failAt /\ bs[k].blob > 0
             THEN [tab |-> t, thrown |-> TRUE]
             ELSE AddBundles2(bs, k + 1,
                              PushBack(t, triple_to_hsa_isa(bs[k].triple),
                                       make_code_object_reader(bs[k].blob)),
                              failAt)

make_code_object_table_2(x, y, failAt) ==
    LET a == AddBundles2(x, 1, y, failAt)
    IN  IF a.thrown THEN a ELSE [tab |-> Erase(a.tab, NoIsa), thrown |-> FALSE]

\* shared_object_code_object_table_ body, lines 832-836: the loop over the
\* containers; the driver call of entry fe of container fc fails (0: none)
RECURSIVE CodeObjectTable2(_, _, _, _, _)
CodeObjectTable2(cs, c, y, fc, fe) ==
    IF c > Len(cs) THEN [tab |-> y, thrown |-> FALSE]
    ELSE LET m == make_code_object_table_2(cs[c], y, IF c = fc THEN fe ELSE 0)
         IN  IF m.thrown THEN m ELSE CodeObjectTable2(cs, c + 1, m.tab, fc, fe)

(***************************************************************************)
(* The running process as the loader shows it: dl_iterate_phdr's module    *)
(* list (the main program first) and the ELF files behind the names.       *)
(***************************************************************************)
SelfExe == "/proc/self/exe"

\* an image of the process: its dl_phdr_info, whether ELFIO loads its file,
\* its SHT_SYMTAB symbols and the byte ranges of its .kernel sections
Image(name, addr, loads, symtab, kernel) ==
    [dlpi_name |-> name, dlpi_addr |-> addr, loads |-> loads,
     symtab |-> symtab, kernel |-> kernel]

Sym(name, type, sect_idx, value, size) ==
    [name |-> name, type |-> type, sect_idx |-> sect_idx, value |-> value, size |-> size]

MainSymtab ==
    << Sym("G", STT_OBJECT, 1, 100, 4),
       Sym("main", STT_FUNC, 1, 200, 16),
       Sym("U", STT_OBJECT, SHN_UNDEF, 0, 0) >>

LibkSymtab ==
    << Sym("H", STT_OBJECT, 2, 20, 8),
       Sym("G", STT_OBJECT, 2, 30, 4) >>

\* the main program (dlpi_name "") with its .kernel bytes, and libk.so
HostImages(loads, kernel) ==
    << Image("", 0, loads, MainSymtab, kernel),
       Image("libk.so", 1000, TRUE, LibkSymtab, <<>>) >>

\* what dl_iterate_phdr hands to its callback, the main program first
Phdrs(imgs) ==
    [i \in DOMAIN imgs |-> [dlpi_name |-> imgs[i].dlpi_name, dlpi_addr |-> imgs[i].dlpi_addr]]

\* reader.load(file): the file behind the name, when there is one and it loads
LoadElf(file, imgs) ==
    LET hit == IF file = SelfExe THEN {1}
               ELSE {i \in DOMAIN imgs : i > 1 /\ imgs[i].dlpi_name = file}
    IN  IF hit # {} /\ imgs # <<>>
        THEN LET i == CHOOSE j \in hit : \A k \in hit : j <= k
             IN  [loads |-> imgs[i].loads,
                  symtab |-> IF imgs[i].loads THEN imgs[i].symtab ELSE <<>>,
                  kernel |-> IF imgs[i].loads THEN imgs[i].kernel ELSE <<>>]
        ELSE [loads |-> FALSE, symtab |-> <<>>, kernel |-> <<>>]

(***************************************************************************)
(* symbol_addresses (first version), lines 91-130.                         *)
(***************************************************************************)
RECURSIVE AddSymbols(_, _, _, _)
AddSymbols(symtab, iter, addr, r) ==
    IF symtab = <<>> THEN r
    ELSE LET tmp == Head(symtab)
         IN  AddSymbols(Tail(symtab), iter, addr,
                 IF tmp.type = STT_OBJECT /\ tmp.sect_idx # SHN_UNDEF
                 THEN Emplace(r, tmp.name,
                              <<tmp.value + (IF iter # 0 THEN addr ELSE 0), tmp.size>>)
                 ELSE r)

RECURSIVE SymbolCallbacks(_, _, _, _)
SymbolCallbacks(infos, iter, r, imgs) ==
    IF infos = <<>> THEN r
    ELSE LET info == Head(infos)
             reader == LoadElf(IF iter = 0 THEN SelfExe ELSE info.dlpi_name, imgs)
         IN  IF reader.loads
             THEN SymbolCallbacks(Tail(infos), iter + 1,
                                  AddSymbols(reader.symtab, iter, info.dlpi_addr, r),
                                  imgs)
             ELSE SymbolCallbacks(Tail(infos), iter, r, imgs)

EmptySymbols == [k \in {} |-> <<0, 0>>]

symbol_addresses(imgs) ==
    SymbolCallbacks(Phdrs(imgs), 0, EmptySymbols, imgs)

(***************************************************************************)
(* symbol_addresses (shared-object version), lines 686-728: iter is        *)
(* incremented by every callback, and the raw value is recorded.           *)
(***************************************************************************)
RECURSIVE AddSymbols2(_, _)
AddSymbols2(symtab, r) ==
    IF symtab = <<>> THEN r
    ELSE LET tmp == Head(symtab)
         IN  AddSymbols2(Tail(symtab),
                 IF tmp.type = STT_OBJECT /\ tmp.sect_idx # SHN_UNDEF
                 THEN Emplace(r, tmp.name, <<tmp.value, tmp.size>>)
                 ELSE r)

RECURSIVE SymbolCallbacks2(_, _, _, _)
SymbolCallbacks2(infos, iter, r, imgs) ==
    IF infos = <<>> THEN r
    ELSE LET info == Head(infos)
             reader == LoadElf(IF iter = 0 THEN SelfExe ELSE info.dlpi_name, imgs)
         IN  SymbolCallbacks2(Tail(infos), iter + 1,
                              IF reader.loads THEN AddSymbols2(reader.symtab, r) ELSE r,
                              imgs)

symbol_addresses2(imgs) ==
    SymbolCallbacks2(Phdrs(imgs), 0, EmptySymbols, imgs)

(***************************************************************************)
(* The .kernel byte ranges of the process: copy_kernel_sections_, lines    *)
(* 338-357; the collection in kernel_sections_, lines 365-379; the         *)
(* shared-object versions, lines 756-777 and 786-787.                      *)
(***************************************************************************)
copy_kernel_sections_(x, out, imgs) ==
    out \o LoadElf(x.dlpi_name, imgs).kernel

RECURSIVE IteratePhdr(_, _, _)
IteratePhdr(infos, out, imgs) ==
    IF infos = <<>> THEN out
    ELSE IteratePhdr(Tail(infos), copy_kernel_sections_(Head(infos), out, imgs), imgs)

\* ks of kernel_sections_, once /proc/self/exe has loaded
KernelSections(imgs) ==
    IteratePhdr(Phdrs(imgs), LoadElf(SelfExe, imgs).kernel, imgs)

copy_kernel_sections_2(x, out, imgs) ==
    out \o LoadElf(IF x.dlpi_addr # 0 THEN x.dlpi_name ELSE SelfExe, imgs).kernel

RECURSIVE IteratePhdr2(_, _, _)
IteratePhdr2(infos, out, imgs) ==
    IF infos = <<>> THEN out
    ELSE IteratePhdr2(Tail(infos), copy_kernel_sections_2(Head(infos), out, imgs), imgs)

\* ks of shared_object_kernel_sections_
KernelSections2(imgs) ==
    IteratePhdr2(Phdrs(imgs), <<>>, imgs)

(***************************************************************************)
(* Code-object blobs.  A blob is one cell of a container; what ELFIO finds *)
(* in it is given here: whether it loads as an ELF image, whether it has a *)
(* SHT_DYNSYM section, and that section's symbols.                         *)
(***************************************************************************)
BlobNotElf == 40
BlobNoDynsym == 41
BlobPlain == 42
BlobG == 43
BlobGH == 44
BlobGM == 45
BlobM == 46
BlobHG == 47

BlobIsElf(blob) == blob # BlobNotElf

BlobHasDynsym(blob) == blob \notin {BlobNotElf, BlobNoDynsym}

Und(n) == [name |-> n, sect_idx |-> SHN_UNDEF]
Def(n) == [name |-> n, sect_idx |-> 1]

BlobDynsym(blob) ==
    CASE blob = BlobPlain -> << Def("kern") >>
      [] blob = BlobG -> << Def("kern"), Und("G"), Und("") >>
      [] blob = BlobGH -> << Und("G"), Und("H") >>
      [] blob = BlobGM -> << Und("G"), Und("M") >>
      [] blob = BlobM -> << Und("M") >>
      [] blob = BlobHG -> << Und("H"), Und("G") >>
      [] OTHER -> <<>>

\* copy_names_of_undefined_symbols, lines 141-156
RECURSIVE copy_names_of_undefined_symbols(_)
copy_names_of_undefined_symbols(section) ==
    IF section = <<>> THEN <<>>
    ELSE LET tmp == Head(section)
             rest == copy_names_of_undefined_symbols(Tail(section))
         IN  IF tmp.sect_idx = SHN_UNDEF /\ tmp.name # "" THEN <<tmp.name>> \o rest ELSE rest

UndefinedSymbols(blob) ==
    IF BlobHasDynsym(blob) THEN copy_names_of_undefined_symbols(BlobDynsym(blob)) ELSE <<>>

(***************************************************************************)
(* The symbols the driver enumerates for an executable and an agent, and   *)
(* make_kernel_table_, lines 453-473.                                      *)
(***************************************************************************)
\* the symbols of a code object, in the driver's iteration order
BlobSymbols(blob) ==
    IF ~BlobIsElf(blob) THEN <<>>
    ELSE IF blob = BlobPlain THEN << <<"k0", "kernel">> >>
    ELSE << <<"k1", "kernel">>, <<"G", "variable">>, <<"k2", "kernel">> >>

\* hsa_executable_iterate_agent_symbols: nothing for an executable that
\* holds no loaded code object
ExecSymbols(ex) ==
    IF ex.created /\ ex.loaded
    THEN [i \in DOMAIN BlobSymbols(ex.blob) |->
            [agent |-> ex.agent, blob |-> ex.blob,
             name |-> BlobSymbols(ex.blob)[i][1], kind |-> BlobSymbols(ex.blob)[i][2]]]
    ELSE <<>>

is_kernel(y) == y.kind = "kernel"

copy_kernel_symbolsAll(y, p) ==
    Append(p, y)

\* copy_kernel_symbols, lines 453-463
copy_kernel_symbols(y, p) ==
    IF is_kernel(y) THEN Append(p, y) ELSE p

RECURSIVE IterateAgentSymbols(_, _)
IterateAgentSymbols(syms, p) ==
    IF syms = <<>> THEN p
    ELSE IterateAgentSymbols(Tail(syms), copy_kernel_symbols(Head(syms), p))

\* the inner loop of make_kernel_table_ over one agent's executables
RECURSIVE KernelsOf(_, _)
KernelsOf(exs, p) ==
    IF exs = <<>> THEN p
    ELSE KernelsOf(Tail(exs), IterateAgentSymbols(ExecSymbols(Head(exs)), p))

\* make_kernel_table_, lines 465-473: y[e.first] is made in the inner loop
make_kernel_table_(x, y) ==
    [a \in DOMAIN y \cup {b \in DOMAIN x : x[b] # <<>>} |->
        KernelsOf(IF a \in DOMAIN x THEN x[a] ELSE <<>>,
                  IF a \in DOMAIN y THEN y[a] ELSE <<>>)]

(***************************************************************************)
(* State.                                                                  *)
(***************************************************************************)
VARIABLES
    images,      \* the images of the process, the main program first
    accAll,      \* hc::accelerator::get_all()
    acc_,        \* Program_state::acc_ after the constructor's filter
    th,          \* per thread: position in the call it is making
    gateSt,      \* per std::once_flag: "idle", "running" or "done"
    gateRuns,    \* per once_flag: how many times its body was started
    gateFailed,  \* per once_flag: whether a run of its body ended in a throw
    ksR,         \* static r of kernel_sections_
    cot,         \* static r of code_object_table_
    execTable,   \* static r of executable_table_
    symTab,      \* static r of symbol_addresses
    globalsTab,  \* static r of globals
    mtx,         \* static mtx of the linker: "free" or the holding thread
    pinCalls,    \* per symbol name: calls of hsa_amd_memory_lock
    faults,      \* driver calls that have failed so far
    cot2,        \* static r of shared_object_code_object_table_
    symTab2,     \* static r of symbol_addresses, shared-object version
    kernTab,     \* static r of kernel_table_
    scanVer,     \* scan loop under study: 1 (kernel_sections_) or 2
    scanIn,      \* the containers the compiler wrote into the byte range
    scanX,       \* the byte range x being scanned
    scanSt,      \* the scan loop's offset, result r, and whether it goes on
    sect         \* the search for .kernel sections: position and the vector ks

vars == <<images, accAll, acc_, th, gateSt, gateRuns, gateFailed, ksR, cot,
          execTable, symTab, globalsTab, mtx, pinCalls, faults, cot2,
          symTab2, kernTab, scanVer, scanIn, scanX, scanSt, sect>>

scanVars == <<scanVer, scanIn, scanX, scanSt>>
inputVars == <<images, accAll, acc_>>

\* whether /proc/self/exe loads as an ELF file
selfLoads == LoadElf(SelfExe, images).loads
linkVars == <<symTab, globalsTab, mtx, pinCalls>>

Gates == {"ks", "cot", "exec", "syms", "globals", "cot2", "kern", "syms2"}
Names == {"G", "H", "M"}

NoError == [kind |-> "none", name |-> ""]

\* RAII_executable r{{}, hsa_executable_destroy}: a null handle
NewExec(agent, blob) ==
    [agent |-> agent, blob |-> blob, created |-> FALSE, defs |-> {},
     loaded |-> FALSE, frozen |-> FALSE, fail |-> "none", log |-> <<>>]

IdleThread ==
    [pc |-> "idle", mode |-> "none", calls |-> 0, gates |-> {}, k |-> 0,
     ex |-> NewExec("none", 0), undef |-> <<>>, i |-> 0, err |-> NoError]

E(t, b) == [triple |-> t, blob |-> b]

\* the bundles compiled into the host image in the runs that are followed
Programs ==
    { << E(TripleX, BlobG) >>,
      << E(TripleX, BlobG), E(TripleX, BlobGH) >>,
      << E(TripleX, BlobG), E(TripleX, BlobGM) >>,
      << E(TripleX, BlobGM) >>,
      << E(TripleX, BlobM) >>,
      << E(TripleX, BlobNotElf) >>,
      << E(TripleX, BlobPlain), E(TripleU, BlobG) >>,
      << E(TripleX, BlobPlain), E(TripleX, BlobGM) >>,
      << E(TripleX, BlobNoDynsym), E(TripleY, BlobHG) >> }

\* a third image of the process: none, a module whose file does not load, or
\* a module that carries a container of its own
ExtraModules ==
    { <<>>,
      << Image("libbad.so", 2000, FALSE, << Sym("M", STT_OBJECT, 1, 40, 4) >>,
               << EncodeAll(<< << E(TripleX, BlobPlain) >> >>) >>) >>,
      << Image("libdev.so", 2000, TRUE, <<>>,
               << EncodeAll(<< << E(TripleY, BlobPlain) >> >>) >>) >> }

Acc(agent, isa, hsa) == [agent |-> agent, isa |-> isa, hsa |-> hsa]

\* hc::accelerator::get_all(): two accelerators of the target runtime and
\* one that is not backed by it
GetAll ==
    { << Acc("c0", IsaX, FALSE), Acc("a1", IsaX, TRUE), Acc("a2", IsaX, TRUE) >>,
      << Acc("a1", IsaX, TRUE), Acc("c0", IsaX, FALSE), Acc("a2", IsaY, TRUE) >> }

Program_stateKeepAll(all) ==
    all

\* Program_state::Program_state, lines 487-495: acc_ without the
\* accelerators for which is_hsa_accelerator() is false
Program_state(all) ==
    SelectSeq(all, LAMBDA x : x.hsa)

AccConfigs == { Program_state(all) : all \in GetAll }

DirectBlobs == {BlobG, BlobGH}

InitShared ==
    /\ th = [t \in Threads |-> IdleThread]
    /\ gateSt = [g \in Gates |-> "idle"]
    /\ gateRuns = [g \in Gates |-> 0]
    /\ gateFailed = [g \in Gates |-> FALSE]
    /\ ksR = <<>>
    /\ cot = EmptyTable
    /\ execTable = EmptyTable
    /\ symTab = EmptySymbols
    /\ symTab2 = EmptySymbols
    /\ kernTab = EmptyTable
    /\ globalsTab = [k \in {} |-> Null]
    /\ mtx = "free"
    /\ pinCalls = [n \in Names |-> 0]
    /\ faults = 0
    /\ cot2 = EmptyTable

\* no image is being searched for .kernel sections
NoSections == [pc |-> "idle", i |-> 0, out |-> <<>>]

InitNoScan ==
    /\ sect = NoSections
    /\ scanVer = 1
    /\ scanX = <<>>
    /\ scanSt = [offset |-> 0, r |-> <<>>, more |-> FALSE]

Init ==
    /\ InitShared
    /\ InitNoScan
    /\ scanIn \in { << es >> : es \in Programs }
    /\ \E loads \in BOOLEAN, mods \in ExtraModules :
         images = HostImages(loads, << EncodeAll(scanIn) >>) \o mods
    /\ accAll \in GetAll
    /\ acc_ = Program_state(accAll)

(***************************************************************************)
(* std::call_once: a throw out of the body leaves the flag unset, for      *)
(* every once_flag whose body the throwing thread is running.              *)
(***************************************************************************)
GateEnter(g) ==
    /\ gateSt' = [gateSt EXCEPT ![g] = "running"]
    /\ gateRuns' = [gateRuns EXCEPT ![g] = @ + 1]
    /\ UNCHANGED gateFailed

GateReopen(g) ==
    /\ gateSt' = [gateSt EXCEPT ![g] = "idle"]
    /\ UNCHANGED <<gateRuns, gateFailed>>

GateDone(g) ==
    /\ gateSt' = [gateSt EXCEPT ![g] = "done"]
    /\ UNCHANGED <<gateRuns, gateFailed>>

GateThrowKeepsRunning(gs) ==
    /\ gateSt' = gateSt
    /\ gateFailed' = [g \in Gates |-> IF g \in gs THEN TRUE ELSE gateFailed[g]]

GateThrow(gs) ==
    /\ gateSt' = [g \in Gates |-> IF g \in gs THEN "idle" ELSE gateSt[g]]
    /\ gateFailed' = [g \in Gates |-> IF g \in gs THEN TRUE ELSE gateFailed[g]]

\* outcomes of a driver call: it may fail while the fault budget lasts
Outcomes == IF faults < MaxFaults THEN {TRUE, FALSE} ELSE {TRUE}

Fault(ok) == faults' = IF ok THEN faults ELSE faults + 1

\* two driver calls made in one step
Faults2(okA, okB) ==
    /\ faults + (IF okA THEN 0 ELSE 1) + (IF okB THEN 0 ELSE 1) <= MaxFaults
    /\ faults' = faults + (IF okA THEN 0 ELSE 1) + (IF okB THEN 0 ELSE 1)

MarkFail(ex, ok, what) ==
    IF ok \/ ex.fail # "none" THEN ex.fail ELSE what

(***************************************************************************)
(* make_executable_table_, lines 429-440: the (agent, blob) pairs in the   *)
(* order the two nested loops visit them.                                  *)
(***************************************************************************)
RECURSIVE WorkListAnyIsa(_, _)
WorkListAnyIsa(accs, x) ==
    IF accs = <<>> THEN <<>>
    ELSE LET a == Head(accs)
             k == IF a.isa \in DOMAIN x \/ DOMAIN x = {} THEN a.isa
                  ELSE CHOOSE i \in DOMAIN x : TRUE
             mine == IF k \in DOMAIN x
                     THEN [j \in 1..Len(x[k]) |-> [agent |-> a.agent, blob |-> x[k][j]]]
                     ELSE <<>>
         IN  mine \o WorkListAnyIsa(Tail(accs), x)

RECURSIVE WorkList(_, _)
WorkList(accs, x) ==
    IF accs = <<>> THEN <<>>
    ELSE LET a == Head(accs)
             mine == IF a.isa \in DOMAIN x
                     THEN [j \in 1..Len(x[a.isa]) |-> [agent |-> a.agent, blob |-> x[a.isa][j]]]
                     ELSE <<>>
         IN  mine \o WorkList(Tail(accs), x)

\* a thread whose call has ended: only the outcome is kept
Ended(t, pc, e) ==
    [IdleThread EXCEPT !.pc = pc, !.mode = th[t].mode, !.calls = th[t].calls, !.err = e]

\* executable_table(x): a caller asks for the Executable Table
Call(t) ==
    /\ th[t].pc \in {"idle", "returned", "raised"}
    /\ th[t].calls < MaxCalls
    /\ th' = [th EXCEPT ![t] = [IdleThread EXCEPT !.pc = "exec_gate", !.mode = "table",
                                                  !.calls = th[t].calls + 1]]
    /\ UNCHANGED <<inputVars, gateSt, gateRuns, gateFailed, ksR, cot, execTable,
                   linkVars, faults, cot2, symTab2, kernTab, scanVars, sect>>

\* a caller builds one executable itself: executable(blob, agent)
CallDirect(t) ==
    /\ th[t].pc \in {"idle", "returned", "raised"}
    /\ th[t].calls < MaxCalls
    /\ \E b \in DirectBlobs, j \in 1..Len(acc_) :
         th' = [th EXCEPT ![t] = [IdleThread EXCEPT !.pc = "ex_load", !.mode = "direct",
                                                    !.calls = th[t].calls + 1,
                                                    !.ex = NewExec(acc_[j].agent, b)]]
    /\ UNCHANGED <<inputVars, gateSt, gateRuns, gateFailed, ksR, cot, execTable,
                   linkVars, faults, cot2, symTab2, kernTab, scanVars, sect>>

\* kernels(x): a caller asks for the Kernel-Symbol Table
CallKernels(t) ==
    /\ th[t].pc \in {"idle", "returned", "raised"}
    /\ th[t].calls < MaxCalls
    /\ th' = [th EXCEPT ![t] = [IdleThread EXCEPT !.pc = "kern_gate", !.mode = "kernels",
                                                  !.calls = th[t].calls + 1]]
    /\ UNCHANGED <<inputVars, gateSt, gateRuns, gateFailed, ksR, cot, execTable,
                   linkVars, faults, cot2, symTab2, kernTab, scanVars, sect>>

\* kernel_table_, lines 475-485: the call_once body asks for the Executable
\* Table first
KernGateSkip(t) ==
    /\ th[t].pc = "kern_gate"
    /\ \/ /\ gateSt["kern"] = "done"
          /\ th' = [th EXCEPT ![t] = Ended(t, "returned", NoError)]
          /\ UNCHANGED <<gateSt, gateRuns, gateFailed>>
       \/ /\ gateSt["kern"] = "idle"
          /\ GateEnter("kern")
          /\ th' = [th EXCEPT ![t].pc = "kern_body", ![t].gates = @ \cup {"kern"}]
    /\ UNCHANGED <<inputVars, ksR, cot, execTable, linkVars, faults, cot2, symTab2,
                   kernTab, scanVars, sect>>

KernGate(t) ==
    /\ th[t].pc = "kern_gate"
    /\ \/ /\ gateSt["kern"] = "done"
          /\ th' = [th EXCEPT ![t] = Ended(t, "returned", NoError)]
          /\ UNCHANGED <<gateSt, gateRuns, gateFailed>>
       \/ /\ gateSt["kern"] = "idle"
          /\ GateEnter("kern")
          /\ th' = [th EXCEPT ![t].pc = "exec_gate", ![t].gates = @ \cup {"kern"}]
    /\ UNCHANGED <<inputVars, ksR, cot, execTable, linkVars, faults, cot2, symTab2,
                   kernTab, scanVars, sect>>

\* lines 480-482: make_kernel_table_(executable_table_(), r)
KernBody(t) ==
    /\ th[t].pc = "kern_body"
    /\ kernTab' = make_kernel_table_(execTable, kernTab)
    /\ GateDone("kern")
    /\ th' = [th EXCEPT ![t] = Ended(t, "returned", NoError)]
    /\ UNCHANGED <<inputVars, ksR, cot, execTable, linkVars, faults, cot2, symTab2,
                   scanVars, sect>>

\* where executable_table_() returns to: its caller, or kernel_table_'s body
AfterExec(t) ==
    IF th[t].mode = "kernels"
    THEN [th EXCEPT ![t].pc = "kern_body", ![t].gates = @ \ {"exec"}]
    ELSE [th EXCEPT ![t] = Ended(t, "returned", NoError)]

ExecGateNoWait(t) ==
    /\ th[t].pc = "exec_gate"
    /\ \/ /\ gateSt["exec"] = "done"
          /\ th' = AfterExec(t)
          /\ UNCHANGED <<gateSt, gateRuns, gateFailed>>
       \/ /\ gateSt["exec"] # "done"
          /\ GateEnter("exec")
          /\ th' = [th EXCEPT ![t].pc = "cot_gate", ![t].gates = @ \cup {"exec"}]
    /\ UNCHANGED <<inputVars, ksR, cot, execTable, linkVars, faults, cot2, symTab2, kernTab, scanVars, sect>>

\* executable_table_, lines 442-451: std::call_once(f, ...)
ExecGate(t) ==
    /\ th[t].pc = "exec_gate"
    /\ \/ /\ gateSt["exec"] = "done"
          /\ th' = AfterExec(t)
          /\ UNCHANGED <<gateSt, gateRuns, gateFailed>>
       \/ /\ gateSt["exec"] = "idle"
          /\ GateEnter("exec")
          /\ th' = [th EXCEPT ![t].pc = "cot_gate", ![t].gates = @ \cup {"exec"}]
    /\ UNCHANGED <<inputVars, ksR, cot, execTable, linkVars, faults, cot2, symTab2, kernTab, scanVars, sect>>

CotGateNoOnce(t) ==
    /\ th[t].pc = "cot_gate"
    /\ \/ /\ gateSt["cot"] = "done"
          /\ th' = [th EXCEPT ![t].pc = "cot_body"]
          /\ UNCHANGED <<gateSt, gateRuns, gateFailed>>
       \/ /\ gateSt["cot"] = "idle"
          /\ GateEnter("cot")
          /\ th' = [th EXCEPT ![t].pc = "ks_gate", ![t].gates = @ \cup {"cot"}]
    /\ UNCHANGED <<inputVars, ksR, cot, execTable, linkVars, faults, cot2, symTab2, kernTab, scanVars, sect>>

\* code_object_table_, lines 414-427: std::call_once(f, ...)
CotGate(t) ==
    /\ th[t].pc = "cot_gate"
    /\ \/ /\ gateSt["cot"] = "done"
          /\ th' = [th EXCEPT ![t].pc = "met_next", ![t].k = 1]
          /\ UNCHANGED <<gateSt, gateRuns, gateFailed>>
       \/ /\ gateSt["cot"] = "idle"
          /\ GateEnter("cot")
          /\ th' = [th EXCEPT ![t].pc = "ks_gate", ![t].gates = @ \cup {"cot"}]
    /\ UNCHANGED <<inputVars, ksR, cot, execTable, linkVars, faults, cot2, symTab2, kernTab, scanVars, sect>>

\* kernel_sections_, lines 359-399: call_once and its body
KsGate(t) ==
    /\ th[t].pc = "ks_gate"
    /\ \/ /\ gateSt["ks"] = "done"
          /\ th' = [th EXCEPT ![t].pc = "cot_body"]
          /\ UNCHANGED <<gateSt, gateRuns, gateFailed, ksR>>
       \/ /\ gateSt["ks"] = "idle"
          /\ gateRuns' = [gateRuns EXCEPT !["ks"] = @ + 1]
          /\ IF selfLoads
             THEN /\ ksR' = ScanAll(KernelSections(images), ksR)
                  /\ gateSt' = [gateSt EXCEPT !["ks"] = "done"]
                  /\ UNCHANGED gateFailed
                  /\ th' = [th EXCEPT ![t].pc = "cot_body"]
             ELSE /\ GateThrow(th[t].gates \cup {"ks"})
                  /\ th' = [th EXCEPT ![t] = Ended(t, "raised",
                                                        [kind |-> "elf", name |-> SelfExe])]
                  /\ UNCHANGED ksR
    /\ UNCHANGED <<inputVars, cot, execTable, linkVars, faults, cot2, symTab2, kernTab, scanVars, sect>>

\* the body of code_object_table_'s call_once, lines 420-424
CotBody(t) ==
    /\ th[t].pc = "cot_body"
    /\ cot' = CodeObjectTable(ksR, cot)
    /\ GateDone("cot")
    /\ th' = [th EXCEPT ![t].pc = "met_next", ![t].k = 1, ![t].gates = @ \ {"cot"}]
    /\ UNCHANGED <<inputVars, ksR, execTable, linkVars, faults, cot2, symTab2, kernTab, scanVars, sect>>

\* make_executable_table_, lines 432-439: the next pair, or the end of the
\* call_once body.  y[hsa_agent(a)] may be evaluated before executable(...)
\* is called (early) or after it returned.
MetNext(t) ==
    /\ th[t].pc = "met_next"
    /\ LET w == WorkList(acc_, cot)
       IN  IF th[t].k > Len(w)
           THEN /\ GateDone("exec")
                /\ th' = AfterExec(t)
                /\ UNCHANGED execTable
           ELSE /\ \E early \in BOOLEAN :
                     execTable' = IF early THEN Subscript(execTable, w[th[t].k].agent)
                                  ELSE execTable
                /\ th' = [th EXCEPT ![t].pc = "ex_load",
                                    ![t].ex = NewExec(w[th[t].k].agent, w[th[t].k].blob)]
                /\ UNCHANGED <<gateSt, gateRuns, gateFailed>>
    /\ UNCHANGED <<inputVars, ksR, cot, linkVars, faults, cot2, symTab2, kernTab, scanVars, sect>>

(***************************************************************************)
(* executable(blob, agent), lines 226-251.                                 *)
(***************************************************************************)
\* lines 230-244: parse the blob; hsa_executable_create_alt, result unchecked
ExLoad(t) ==
    /\ th[t].pc = "ex_load"
    /\ IF ~BlobIsElf(th[t].ex.blob)
       THEN /\ th' = [th EXCEPT ![t].pc = "ex_return"]
            /\ UNCHANGED faults
       ELSE \E ok \in Outcomes :
              /\ Fault(ok)
              /\ th' = [th EXCEPT ![t].pc = "lk_check1",
                                  ![t].ex.created = ok,
                                  ![t].ex.log = Append(@, <<"create", "">>),
                                  ![t].ex.fail = MarkFail(th[t].ex, ok, "create"),
                                  ![t].undef = UndefinedSymbols(th[t].ex.blob),
                                  ![t].i = 1]
    /\ UNCHANGED <<inputVars, gateSt, gateRuns, gateFailed, ksR, cot, execTable,
                   linkVars, cot2, symTab2, kernTab, scanVars, sect>>

(***************************************************************************)
(* associate_code_object_symbols_with_host_allocation, lines 158-189.      *)
(***************************************************************************)
\* globals(), lines 132-139, and inside its call_once symbol_addresses()
Globals(t) ==
    /\ th[t].pc = "lk_check1"
    /\ th[t].i <= Len(th[t].undef)
    /\ gateSt["globals"] = "idle"
    /\ symTab' = symbol_addresses(images)
    /\ gateSt' = [gateSt EXCEPT !["globals"] = "done", !["syms"] = "done"]
    /\ gateRuns' = [gateRuns EXCEPT !["globals"] = @ + 1, !["syms"] = @ + 1]
    /\ UNCHANGED <<inputVars, th, gateFailed, ksR, cot, execTable, globalsTab, mtx,
                   pinCalls, faults, cot2, symTab2, kernTab, scanVars, sect>>

\* where a throw out of executable() leaves the thread and the once_flags
Raise(t, e) ==
    /\ GateThrow(th[t].gates)
    /\ th' = [th EXCEPT ![t] = Ended(t, "raised", e)]

\* lines 168-175: the loop head, the unlocked check, the host lookup
LkCheck1(t) ==
    /\ th[t].pc = "lk_check1"
    /\ IF th[t].i > Len(th[t].undef)
       THEN /\ th' = [th EXCEPT ![t].pc = "lf_load"]
            /\ UNCHANGED <<gateSt, gateRuns, gateFailed>>
       ELSE /\ gateSt["globals"] = "done"
            /\ LET x == th[t].undef[th[t].i]
               IN  IF x \in DOMAIN globalsTab
                   THEN /\ th' = [th EXCEPT ![t].pc = "lf_load"]
                        /\ UNCHANGED <<gateSt, gateRuns, gateFailed>>
                   ELSE IF x \notin DOMAIN symTab
                        THEN /\ Raise(t, [kind |-> "undefined", name |-> x])
                             /\ UNCHANGED gateRuns
                        ELSE /\ th' = [th EXCEPT ![t].pc = "lk_lock"]
                             /\ UNCHANGED <<gateSt, gateRuns, gateFailed>>
    /\ UNCHANGED <<inputVars, ksR, cot, execTable, linkVars, faults, cot2, symTab2, kernTab, scanVars, sect>>

\* lines 177-181: std::lock_guard<std::mutex> lck{mtx}; the re-check under
\* the lock (return releases the lock); globals().emplace(x, host address)
LkLock(t) ==
    /\ th[t].pc = "lk_lock"
    /\ mtx = "free"
    /\ IF th[t].undef[th[t].i] \in DOMAIN globalsTab
       THEN /\ th' = [th EXCEPT ![t].pc = "lf_load"]
            /\ UNCHANGED <<mtx, globalsTab>>
       ELSE /\ mtx' = t
            /\ globalsTab' = Emplace(globalsTab, th[t].undef[th[t].i],
                                     symTab[th[t].undef[th[t].i]][1])
            /\ th' = [th EXCEPT ![t].pc = "lk_pin"]
    /\ UNCHANGED <<inputVars, gateSt, gateRuns, gateFailed, ksR, cot, execTable,
                   symTab, pinCalls, faults, cot2, symTab2, kernTab, scanVars, sect>>

\* the agent-visible address hsa_amd_memory_lock gives for a host address
PinnedAddress(host) == host + 5000

\* lines 182-187: hsa_amd_memory_lock (p stays null on failure), then
\* hsa_executable_agent_global_variable_define, both results unchecked; the
\* end of the loop body releases the lock
LkPin(t) ==
    /\ th[t].pc = "lk_pin"
    /\ pinCalls' = [pinCalls EXCEPT ![th[t].undef[th[t].i]] = @ + 1]
    /\ \E okPin \in Outcomes, okDef \in Outcomes :
         LET x == th[t].undef[th[t].i]
             p == IF okPin THEN PinnedAddress(symTab[x][1]) ELSE Null
             done == okDef /\ th[t].ex.created /\ ~th[t].ex.frozen
             f1 == MarkFail(th[t].ex, okPin, "pin")
         IN  /\ Faults2(okPin, okDef)
             /\ th' = [th EXCEPT ![t].pc = "lk_check1",
                                 ![t].i = @ + 1,
                                 ![t].ex.defs = IF done THEN @ \cup {<<x, p>>} ELSE @,
                                 ![t].ex.log = Append(@, <<"define", x>>),
                                 ![t].ex.fail = IF f1 # "none" \/ done THEN f1 ELSE "define"]
    /\ mtx' = "free"
    /\ UNCHANGED <<inputVars, gateSt, gateRuns, gateFailed, ksR, cot, execTable,
                   symTab, globalsTab, cot2, symTab2, kernTab, scanVars, sect>>

(***************************************************************************)
(* load_code_object_and_freeze_executable, lines 191-220.                  *)
(***************************************************************************)
\* lines 206-219: reader from memory, hsa_executable_load_agent_code_object,
\* hsa_executable_freeze, every result unchecked
LfLoad(t) ==
    /\ th[t].pc = "lf_load"
    /\ \E okLoad \in Outcomes, okFreeze \in Outcomes :
         LET loaded == okLoad /\ th[t].ex.created /\ ~th[t].ex.frozen
             frozen == okFreeze /\ th[t].ex.created /\ ~th[t].ex.frozen
             f1 == MarkFail(th[t].ex, loaded, "load")
         IN  /\ Faults2(okLoad, okFreeze)
             /\ th' = [th EXCEPT ![t].pc = "ex_return",
                                 ![t].ex.loaded = loaded,
                                 ![t].ex.log = @ \o << <<"load", "">>, <<"freeze", "">> >>,
                                 ![t].ex.frozen = frozen,
                                 ![t].ex.fail = IF f1 # "none" \/ frozen THEN f1 ELSE "freeze"]
    /\ UNCHANGED <<inputVars, gateSt, gateRuns, gateFailed, ksR, cot, execTable,
                   linkVars, cot2, symTab2, kernTab, scanVars, sect>>

\* line 250 / line 236: return r; in make_executable_table_ (line 436) the
\* returned handle is pushed to the agent's list
ExReturn(t) ==
    /\ th[t].pc = "ex_return"
    /\ IF th[t].mode # "direct"
       THEN /\ execTable' = PushBack(execTable, th[t].ex.agent, th[t].ex)
            /\ th' = [th EXCEPT ![t].pc = "met_next", ![t].k = @ + 1]
       ELSE /\ th' = [th EXCEPT ![t] = Ended(t, "returned", NoError)]
            /\ UNCHANGED execTable
    /\ UNCHANGED <<inputVars, gateSt, gateRuns, gateFailed, ksR, cot, linkVars,
                   faults, cot2, symTab2, kernTab, scanVars, sect>>

\* the steps of executable(blob, agent) and of the linker it calls
ExecutableStep(t) ==
    \/ ExLoad(t)
    \/ Globals(t)
    \/ LkCheck1(t)
    \/ LkLock(t)
    \/ LkPin(t)
    \/ LfLoad(t)
    \/ ExReturn(t)

(***************************************************************************)
(* Spec: every request goes through the Program_state accessor.            *)
(***************************************************************************)
Next ==
    \E t \in Threads :
        \/ Call(t)
        \/ CallKernels(t)
        \/ KernGate(t)
        \/ KernBody(t)
        \/ ExecGate(t)
        \/ CotGate(t)
        \/ KsGate(t)
        \/ CotBody(t)
        \/ MetNext(t)
        \/ ExecutableStep(t)

Spec == Init /\ [][Next]_vars

(***************************************************************************)
(* SpecLink: threads build executables themselves, concurrently.           *)
(***************************************************************************)
InitLink ==
    /\ InitShared
    /\ InitNoScan
    /\ images \in { HostImages(loads, <<>>) : loads \in BOOLEAN }
    /\ scanIn = <<>>
    /\ accAll \in GetAll
    /\ acc_ = Program_state(accAll)

NextLink ==
    \E t \in Threads :
        \/ CallDirect(t)
        \/ ExecutableStep(t)

\* the steps of thread t once it is inside an accessor
ThreadStep(t) ==
    \/ KernGate(t)
    \/ KernBody(t)
    \/ ExecGate(t)
    \/ CotGate(t)
    \/ KsGate(t)
    \/ CotBody(t)
    \/ MetNext(t)
    \/ ExecutableStep(t)

\* Spec under fair scheduling: a thread that can take a step inside an
\* accessor is not held back forever (every driver call returns)
SpecLive ==
    Init /\ [][Next]_vars /\ \A t \in Threads : WF_vars(ThreadStep(t))

SpecLink == InitLink /\ [][NextLink]_vars

(***************************************************************************)
(* Inputs for the extractor and the table builder: lists of containers     *)
(* whose entries carry any of the three triples and a blob that tells its  *)
(* position (container c, entry e: blob 10 * c + e).                       *)
(***************************************************************************)
Triples == {TripleX, TripleY, TripleU}

ContainerAt(c, ts) ==
    [e \in 1..Len(ts) |-> [triple |-> ts[e], blob |-> 10 * c + e]]

\* the triples ts cut into consecutive groups, after every i with cuts[i]
RECURSIVE Split(_, _, _, _, _)
Split(ts, cuts, i, cur, acc) ==
    IF i > Len(ts) THEN (IF cur = <<>> THEN acc ELSE Append(acc, cur))
    ELSE IF i < Len(ts) /\ cuts[i]
         THEN Split(ts, cuts, i + 1, <<>>, Append(acc, Append(cur, ts[i])))
         ELSE Split(ts, cuts, i + 1, Append(cur, ts[i]), acc)

Groupings ==
    UNION { { Split(ts, cuts, 1, <<>>, <<>>) : ts \in [1..n -> Triples],
                                                cuts \in [1..n -> BOOLEAN] }
            : n \in 0..MaxEntries }

\* every grouping, also with an entry-less container before or after it
ContainerLists ==
    { [c \in 1..Len(g) |-> ContainerAt(c, g[c])] :
        g \in Groupings \cup { <<<<>>>> \o h : h \in Groupings }
                        \cup { h \o <<<<>>>> : h \in Groupings } }

\* trailing bytes that do not decode as a container
Tails ==
    { <<>>, <<0>>, <<Magic>>, <<Magic, 1>>, <<Magic, 8>>, <<7, Magic, HeaderSize>> }

(***************************************************************************)
(* SpecScan: the scan loop of either version over one byte range.          *)
(***************************************************************************)
InitScan ==
    /\ InitShared
    /\ images = HostImages(TRUE, <<>>)
    /\ accAll = <<>>
    /\ acc_ = <<>>
    /\ sect = NoSections
    /\ scanVer \in {1, 2}
    /\ scanIn \in ContainerLists
    /\ \E tail \in Tails : scanX = EncodeAll(scanIn) \o tail
    /\ scanSt = [offset |-> 0, r |-> <<>>, more |-> TRUE]

\* one iteration of the loop of kernel_sections_, lines 382-394
ScanStep ==
    /\ scanVer = 1
    /\ scanSt.more
    /\ scanSt' = ScanIter(scanX, scanSt)
    /\ UNCHANGED <<inputVars, th, gateSt, gateRuns, gateFailed, ksR, cot, execTable,
                   linkVars, faults, cot2, symTab2, kernTab, scanVer, scanIn, scanX, sect>>

\* one iteration of the loop of shared_object_kernel_sections_, lines 790-800
ScanStep2 ==
    /\ scanVer = 2
    /\ scanSt.more
    /\ Len(scanSt.r) < MaxScanOut
    /\ \E moved \in MovedFromSizes(scanX, scanSt.offset) :
         scanSt' = ScanIter2(scanX, scanSt, moved)
    /\ UNCHANGED <<inputVars, th, gateSt, gateRuns, gateFailed, ksR, cot, execTable,
                   linkVars, faults, cot2, symTab2, kernTab, scanVer, scanIn, scanX, sect>>

NextScan == ScanStep \/ ScanStep2

SpecScan == InitScan /\ [][NextScan]_vars

(***************************************************************************)
(* SpecCot: one caller has the Code-Object Table built, by either version, *)
(* from any list of containers.                                            *)
(***************************************************************************)
InitCot ==
    /\ InitShared
    /\ InitNoScan
    /\ scanIn \in ContainerLists
    /\ images \in { HostImages(loads, << EncodeAll(scanIn) >>) : loads \in BOOLEAN }
    /\ accAll = <<>>
    /\ acc_ = <<>>

\* shared_object_code_object_table_, lines 826-839: call_once and its body
Cot2Body ==
    /\ gateSt["cot2"] = "idle"
    /\ LET cs == ScanAll(KernelSections2(images), <<>>)
       IN  \E fc \in 0..Len(cs), fe \in 0..MaxEntries :
             /\ (fc = 0) = (fe = 0)
             /\ fc > 0 => /\ faults < MaxFaults
                          /\ fe <= Len(cs[fc])
                          /\ cs[fc][fe].blob > 0
             /\ LET m == CodeObjectTable2(cs, 1, cot2, fc, fe)
                IN  /\ cot2' = m.tab
                    /\ faults' = IF m.thrown THEN faults + 1 ELSE faults
                    /\ gateSt' = [gateSt EXCEPT !["cot2"] = IF m.thrown THEN "idle" ELSE "done"]
                    /\ gateFailed' = [gateFailed EXCEPT !["cot2"] = @ \/ m.thrown]
    /\ gateRuns' = [gateRuns EXCEPT !["cot2"] = @ + 1]
    /\ UNCHANGED <<inputVars, th, ksR, cot, execTable, linkVars, symTab2, kernTab, scanVars, sect>>

NextCot ==
    \/ \E t \in {"t1"} :
          \/ Call(t)
          \/ ExecGate(t)
          \/ CotGate(t)
          \/ KsGate(t)
          \/ CotBody(t)
    \/ Cot2Body

SpecCot == InitCot /\ [][NextCot]_vars

(***************************************************************************)
(* SpecSyms: the Host Symbol Table of either version, for a main program   *)
(* and two modules, each of which may fail to load and carries one of a    *)
(* few symbol tables; a symbol's value and size tell its image and place.  *)
(***************************************************************************)
ModuleNames == << "", "liba.so", "libb.so" >>

SymKinds == { << <<"G", "def">> >>,
              << <<"G", "undef">> >>,
              << <<"G", "func">> >>,
              << <<"H", "def">>, <<"G", "def">> >>,
              << <<"G", "def">>, <<"G", "def">> >>,
              <<>> }

SymtabAt(i, kinds) ==
    [k \in DOMAIN kinds |->
        Sym(kinds[k][1],
            IF kinds[k][2] = "func" THEN STT_FUNC ELSE STT_OBJECT,
            IF kinds[k][2] = "undef" THEN SHN_UNDEF ELSE i,
            10 * i + k, i)]

ImageLists ==
    { [i \in DOMAIN ModuleNames |->
          Image(ModuleNames[i], 1000 * (i - 1), ld[i], SymtabAt(i, ks[i]), <<>>)] :
        ld \in [DOMAIN ModuleNames -> BOOLEAN], ks \in [DOMAIN ModuleNames -> SymKinds] }

InitSyms ==
    /\ InitShared
    /\ InitNoScan
    /\ images \in ImageLists
    /\ scanIn = <<>>
    /\ accAll = <<>>
    /\ acc_ = <<>>

\* symbol_addresses, lines 91-130: call_once and its body
SymsBody ==
    /\ gateSt["syms"] = "idle"
    /\ symTab' = symbol_addresses(images)
    /\ gateSt' = [gateSt EXCEPT !["syms"] = "done"]
    /\ gateRuns' = [gateRuns EXCEPT !["syms"] = @ + 1]
    /\ UNCHANGED <<inputVars, th, gateFailed, ksR, cot, execTable, globalsTab, mtx,
                   pinCalls, faults, cot2, symTab2, kernTab, scanVars, sect>>

\* Program_state::symbol_addresses, lines 686-728: call_once and its body
Syms2Body ==
    /\ gateSt["syms2"] = "idle"
    /\ symTab2' = symbol_addresses2(images)
    /\ gateSt' = [gateSt EXCEPT !["syms2"] = "done"]
    /\ gateRuns' = [gateRuns EXCEPT !["syms2"] = @ + 1]
    /\ UNCHANGED <<inputVars, th, gateFailed, ksR, cot, execTable, linkVars,
                   faults, cot2, kernTab, scanVars, sect>>

NextSyms == SymsBody \/ Syms2Body

SpecSyms == InitSyms /\ [][NextSyms]_vars

(***************************************************************************)
(* SpecSect: the search for .kernel sections of either version, one        *)
(* dl_iterate_phdr callback at a time, over a main program that is or is   *)
(* not position independent and the modules loaded after it.               *)
(***************************************************************************)
\* the load bias dl_iterate_phdr reports for a position-independent main program
PieBase == 7000

SectModules ==
    { Image("libk.so", 1000, TRUE, LibkSymtab, <<>>),
      Image("libdev.so", 2000, TRUE, <<>>,
            << EncodeAll(<< << E(TripleY, BlobPlain) >> >>) >>),
      Image("libbad.so", 3000, FALSE, <<>>,
            << EncodeAll(<< << E(TripleX, BlobPlain) >> >>) >>),
      Image("libdev2.so", 4000, TRUE, <<>>,
            << EncodeAll(<< << E(TripleX, BlobGH) >> >>) >>) }

\* the modules in load order
ModuleLists ==
    UNION { { m \in [1..n -> SectModules] : \A i, j \in 1..n : i # j => m[i] # m[j] }
            : n \in 0..MaxModules }

MainKernels == { <<>>, << EncodeAll(<< << E(TripleX, BlobG) >> >>) >> }

InitSect ==
    /\ InitShared
    /\ accAll = <<>>
    /\ acc_ = <<>>
    /\ scanIn = <<>>
    /\ scanX = <<>>
    /\ scanSt = [offset |-> 0, r |-> <<>>, more |-> FALSE]
    /\ scanVer \in {1, 2}
    /\ \E addr \in {0, PieBase}, loads \in BOOLEAN, kernel \in MainKernels,
          mods \in ModuleLists :
          images = << Image("", addr, loads, MainSymtab, kernel) >> \o mods
    /\ sect = [pc |-> IF scanVer = 1 THEN "self" ELSE "iter", i |-> 1, out |-> <<>>]

\* kernel_sections_, lines 366-377: /proc/self/exe is read first
SectSelf ==
    /\ sect.pc = "self"
    /\ sect' = IF selfLoads
             THEN [sect EXCEPT !.pc = "iter", !.out = LoadElf(SelfExe, images).kernel]
             ELSE [sect EXCEPT !.pc = "raised"]
    /\ UNCHANGED <<inputVars, th, gateSt, gateRuns, gateFailed, ksR, cot, execTable,
                   linkVars, faults, cot2, symTab2, kernTab, scanVars>>

\* dl_iterate_phdr, lines 379 and 787: the callback on the next image
SectCallback ==
    /\ sect.pc = "iter"
    /\ sect.i <= Len(images)
    /\ sect' = [sect EXCEPT !.i = @ + 1,
                        !.out = IF scanVer = 1
                                THEN copy_kernel_sections_(Phdrs(images)[sect.i], @, images)
                                ELSE copy_kernel_sections_2(Phdrs(images)[sect.i], @, images)]
    /\ UNCHANGED <<inputVars, th, gateSt, gateRuns, gateFailed, ksR, cot, execTable,
                   linkVars, faults, cot2, symTab2, kernTab, scanVars>>

\* dl_iterate_phdr returns: every image has been visited
SectEnd ==
    /\ sect.pc = "iter"
    /\ sect.i > Len(images)
    /\ sect' = [sect EXCEPT !.pc = "done"]
    /\ UNCHANGED <<inputVars, th, gateSt, gateRuns, gateFailed, ksR, cot, execTable,
                   linkVars, faults, cot2, symTab2, kernTab, scanVars>>

NextSect == SectSelf \/ SectCallback \/ SectEnd

SpecSect == InitSect /\ [][NextSect]_vars

(***************************************************************************)
(* Properties.                                                             *)
(***************************************************************************)
Range(q) == {q[i] : i \in DOMAIN q}

\* the Host Symbol Table of the process
HostSymbols == DOMAIN symbol_addresses(images)

\* the executables in the Executable Table
TableEntries == UNION {Range(execTable[a]) : a \in DOMAIN execTable}

\* the names an executable's code object leaves undefined
UndefNames(e) == Range(UndefinedSymbols(e.blob))

DefinedNames(e) == {d[1] : d \in e.defs}

\* a thread whose executable(blob, agent) has run the linker and is returning
Linked(t) == th[t].pc = "ex_return" /\ BlobIsElf(th[t].ex.blob)

\* C1 (first half): hsa_amd_memory_lock is called at most once per name.
PinAtMostOnce ==
    \A n \in Names : pinCalls[n] <= 1

\* C1: the pin operation is called at most once for each symbol name, and
\* exactly once for a name that a linked code object references and the
\* Host Symbol Table defines (counted when no thread stands between the
\* insertion of a name and its pin, in the runs in which no driver call
\* fails).
C1_ExactlyOncePinning ==
    /\ PinAtMostOnce
    /\ (faults = 0 /\ \A u \in Threads : th[u].pc # "lk_pin") =>
         \A t \in Threads :
            Linked(t) => \A n \in Range(th[t].undef) \cap HostSymbols : pinCalls[n] = 1

\* C2: every undefined name of a code object that the Host Symbol Table
\* defines is defined on the code object's executable before it is frozen,
\* also when an earlier executable pinned the name (stated for the runs in
\* which no driver call fails).
C2_HostSymbolsDefinedBeforeFreeze ==
    faults = 0 =>
        \A e \in TableEntries :
            e.frozen => (UndefNames(e) \cap HostSymbols) \subseteq DefinedNames(e)

\* C3: a code object with an undefined name that is absent from the Host
\* Symbol Table gets no executable in the Executable Table: its construction
\* ends in the "undefined global symbol" error, which names an absent symbol
\* (the first half stated for the runs in which no driver call fails).
C3_MissingSymbolFailsConstruction ==
    /\ faults = 0 => \A e \in TableEntries : UndefNames(e) \subseteq HostSymbols
    /\ \A t \in Threads :
         th[t].err.kind = "undefined" => th[t].err.name \notin HostSymbols

\* C4: every entry of the Executable Table a caller can observe has been
\* created, loaded and frozen (stated for the runs in which no driver call
\* fails).
C4_TableEntriesAreFrozen ==
    (faults = 0 /\ gateSt["exec"] = "done") =>
        \A e \in TableEntries : e.created /\ e.loaded /\ e.frozen

\* C5: the construction body of each lazily built table is executed by one
\* caller only, and no accessor returns while the table is not complete.
C5_BodyRunsOnce ==
    /\ \A g \in {"cot", "exec", "syms"} : gateRuns[g] <= 1
    /\ \A t \in Threads :
         (th[t].pc = "returned" /\ th[t].mode = "table") => gateSt["exec"] = "done"

\* C6: once the construction of a table has failed, no later request runs
\* the construction again and none gets the table as if it had succeeded.
C6_FailureIsPermanent ==
    \A g \in {"cot", "exec"} :
        gateFailed[g] => (gateRuns[g] <= 1 /\ gateSt[g] = "idle")

\* C7: an executable for which a driver call failed is not added to the
\* Executable Table.
C7_DriverFailureAborts ==
    \A e \in TableEntries : e.fail = "none"

\* C8: from a byte range holding N valid containers and then malformed
\* bytes, the scan recovers exactly those N containers, in order.
C8_ScanRecoversContainers ==
    ~scanSt.more => scanSt.r = scanIn

\* the first-version loop alone does recover them
ScanV1Recovers ==
    (scanVer = 1 /\ ~scanSt.more) => scanSt.r = scanIn

\* the bundle entries the compiler wrote
AllEntries == UNION {Range(scanIn[c]) : c \in DOMAIN scanIn}

UnresolvedBlobs == {e.blob : e \in {x \in AllEntries : triple_to_hsa_isa(x.triple) = NoIsa}}

BlobsOf(isa) == {e.blob : e \in {x \in AllEntries : triple_to_hsa_isa(x.triple) = isa}}

\* C9: the completed Code-Object Table of either version has no key
\* hsa_isa_t{0} and holds no entry whose triple did not resolve under any
\* key; an unresolved triple raises no error (the first version fails only
\* when the process image does not load, the second only on a driver failure).
C9_NoPlaceholderKey ==
    /\ gateSt["cot"] = "done" =>
         /\ NoIsa \notin DOMAIN cot
         /\ \A k \in DOMAIN cot : Range(cot[k]) \cap UnresolvedBlobs = {}
    /\ gateSt["cot2"] = "done" =>
         /\ NoIsa \notin DOMAIN cot2
         /\ \A k \in DOMAIN cot2 :
              Range(cot2[k]) \cap {make_code_object_reader(b) : b \in UnresolvedBlobs} = {}
    /\ gateFailed["cot"] => ~selfLoads
    /\ gateFailed["cot2"] => faults > 0

C9_Witness ==
    /\ gateSt["cot"] = "done"
    /\ gateSt["cot2"] = "done"
    /\ UnresolvedBlobs # {}
    /\ DOMAIN cot # {}
    /\ DOMAIN cot2 # {}

\* C10: the Code-Object Table maps each resolved ISA to exactly the blobs of
\* the entries whose triple resolves to it, in container order and then
\* entry order (a blob tells its position), none lost, doubled or misplaced.
C10_TableIsGroupedByIsa ==
    gateSt["cot"] = "done" =>
        /\ DOMAIN cot = {triple_to_hsa_isa(e.triple) : e \in AllEntries} \ {NoIsa}
        /\ \A k \in DOMAIN cot :
             /\ Range(cot[k]) = BlobsOf(k)
             /\ \A i, j \in DOMAIN cot[k] : i < j => cot[k][i] < cot[k][j]

C10_Witness ==
    /\ gateSt["cot"] = "done"
    /\ UnresolvedBlobs # {}
    /\ IsaX \in DOMAIN cot
    /\ Len(cot[IsaX]) >= 2
    /\ cot[IsaX][1] < 20
    /\ cot[IsaX][2] > 20

\* the example of C10: entry A (resolves to X) and entry B (unresolved)
C10_Example ==
    (gateSt["cot"] = "done" /\ scanIn = << ContainerAt(1, <<TripleX, TripleU>>) >>) =>
        (DOMAIN cot = {IsaX} /\ cot[IsaX] = <<11>>)

\* the accelerators whose ISA has no entry in the Code-Object Table
Unmatched == {j \in DOMAIN acc_ : acc_[j].isa \notin DOMAIN cot}

\* the names left undefined by the code objects some accelerator is given
NeededNames ==
    UNION { UNION { Range(UndefinedSymbols(b)) : b \in Range(cot[acc_[j].isa]) }
            : j \in DOMAIN acc_ \ Unmatched }

\* C11: an accelerator whose ISA has no entry in the Code-Object Table gets
\* no key and no executable in the Executable Table, none is ever under
\* construction for its agent, and it causes no error (an error that is
\* raised is the image-load error or names a symbol that a matched code
\* object needs); every executable in the table belongs to an accelerator
\* with an entry and is built from a blob of that entry.
C11_NoExecutableWithoutCodeObject ==
    /\ \A j \in Unmatched :
         /\ acc_[j].agent \notin DOMAIN execTable
         /\ \A t \in Threads : th[t].ex.agent # acc_[j].agent
    /\ \A t \in Threads :
         \/ th[t].err.kind = "none"
         \/ th[t].err.kind = "elf" /\ ~selfLoads
         \/ th[t].err.kind = "undefined" /\ th[t].err.name \in NeededNames
    /\ \A e \in TableEntries :
         \E j \in DOMAIN acc_ \ Unmatched :
            acc_[j].agent = e.agent /\ e.blob \in Range(cot[acc_[j].isa])

C11_Witness ==
    /\ gateSt["exec"] = "done"
    /\ Unmatched # {}
    /\ TableEntries # {}

\* some caller has been handed the table of this accessor
Served(mode) == \E t \in Threads : th[t].pc = "returned" /\ th[t].mode = mode

\* the positions of a thread that is building executables
BuildPcs == {"met_next", "ex_load", "lk_check1", "lk_lock", "lk_pin", "lf_load", "ex_return"}

\* C12: once an access to executable_table or kernels has returned, every
\* later step leaves the Executable Table, the Code-Object Table and the
\* Pinned-Global Table as they are and makes no driver call (no thread
\* builds an executable, nothing is pinned); once an access to kernels has
\* returned the Kernel-Symbol Table stays as it is too and is not rebuilt.
C12_SecondAccessChangesNothing ==
    [][ /\ (Served("table") \/ Served("kernels")) =>
             /\ execTable' = execTable
             /\ cot' = cot
             /\ globalsTab' = globalsTab
             /\ pinCalls' = pinCalls
             /\ faults' = faults
             /\ \A u \in Threads : th'[u].pc \notin BuildPcs
        /\ Served("kernels") =>
             /\ kernTab' = kernTab
             /\ \A u \in Threads : th'[u].pc # "kern_body"
      ]_vars

C12_Witness ==
    /\ \A t \in Threads : th[t].pc = "returned" /\ th[t].mode = "kernels"
    /\ \E a \in DOMAIN kernTab : kernTab[a] # <<>>
    /\ \A n \in HostSymbols \cap {"G"} : pinCalls[n] = 1

RECURSIVE Flatten(_)
Flatten(qs) == IF qs = <<>> THEN <<>> ELSE Head(qs) \o Flatten(Tail(qs))

\* the kernel entry points of an agent's executables, in executable order
\* and, within an executable, in the driver's iteration order
KernelEntryPoints(a) ==
    IF a \in DOMAIN execTable
    THEN Flatten([i \in DOMAIN execTable[a] |->
                     SelectSeq(ExecSymbols(execTable[a][i]), is_kernel)])
    ELSE <<>>

Agents == {acc_[j].agent : j \in DOMAIN acc_}

\* C13: in the completed Kernel-Symbol Table the list of every agent is
\* exactly the kernel entry points of that agent's executables in the
\* Executable Table, in executable order and then iteration order; it holds
\* no symbol that is not a kernel and none of another agent's executable.
C13_KernelTableIsKernelsOfExecutables ==
    gateSt["kern"] = "done" =>
        /\ DOMAIN kernTab \subseteq Agents
        /\ \A a \in Agents :
             /\ (IF a \in DOMAIN kernTab THEN kernTab[a] ELSE <<>>) = KernelEntryPoints(a)
             /\ a \in DOMAIN kernTab =>
                  \A y \in Range(kernTab[a]) : y.kind = "kernel" /\ y.agent = a

C13_Witness ==
    /\ gateSt["kern"] = "done"
    /\ \E a \in DOMAIN kernTab :
         /\ Len(kernTab[a]) >= 3
         /\ \E i, j \in DOMAIN kernTab[a] : kernTab[a][i].blob # kernTab[a][j].blob
    /\ Cardinality(DOMAIN kernTab) = 2

\* the .kernel byte ranges of the images whose files load, the main
\* program's first
RECURSIVE LoadableKernels(_)
LoadableKernels(imgs) ==
    IF imgs = <<>> THEN <<>>
    ELSE (IF Head(imgs).loads THEN Head(imgs).kernel ELSE <<>>) \o LoadableKernels(Tail(imgs))

\* C14 (modules): once the scan has completed, its result is the containers
\* of the images that load; a module that does not load adds nothing.
ModuleFailuresAreSkipped ==
    gateSt["ks"] = "done" => ksR = ScanAll(LoadableKernels(images), <<>>)

\* C14: an image that does not parse, the host's own image included,
\* contributes no container and does not abort the scan: no error about
\* the image reaches a caller and the scan completes with the containers of
\* the images that load.
C14_UnloadableImagesAreSkipped ==
    /\ ModuleFailuresAreSkipped
    /\ \A t \in Threads : th[t].err.kind # "elf"

\* the data objects an image defines, when its file loads
DataObjects(img) ==
    IF img.loads
    THEN SelectSeq(img.symtab, LAMBDA y : y.type = STT_OBJECT /\ y.sect_idx # SHN_UNDEF)
    ELSE <<>>

Defines(img, n) == \E k \in DOMAIN DataObjects(img) : DataObjects(img)[k].name = n

\* the first image in scan order that defines n, and its first definition
FirstImage(n) ==
    CHOOSE i \in DOMAIN images :
        Defines(images[i], n) /\ \A j \in 1..(i - 1) : ~Defines(images[j], n)

FirstDefinition(n) ==
    LET q == DataObjects(images[FirstImage(n)])
    IN  q[CHOOSE k \in DOMAIN q : q[k].name = n /\ \A j \in 1..(k - 1) : q[j].name # n]

Bias(i) == IF i = 1 THEN 0 ELSE images[i].dlpi_addr

\* C15: a name in the Host Symbol Table of either version carries the
\* address and size of its first definition in scan order (the main
\* program, then the modules in load order); a later definition of the
\* name, in the same image or in a later one, does not replace it.
C15_FirstWriterWins ==
    /\ gateSt["syms"] = "done" =>
         \A n \in DOMAIN symTab :
            symTab[n] = << FirstDefinition(n).value + Bias(FirstImage(n)),
                           FirstDefinition(n).size >>
    /\ gateSt["syms2"] = "done" =>
         \A n \in DOMAIN symTab2 :
            symTab2[n] = << FirstDefinition(n).value, FirstDefinition(n).size >>

C15_Witness ==
    /\ gateSt["syms"] = "done"
    /\ gateSt["syms2"] = "done"
    /\ "G" \in DOMAIN symTab
    /\ "G" \in DOMAIN symTab2
    /\ Cardinality({i \in DOMAIN images : Defines(images[i], "G")}) = 3
    /\ Len(DataObjects(images[1])) = 2

\* the names some image of the process defines as a data object
DefinedObjects ==
    {n \in {"G", "H"} : \E i \in DOMAIN images : Defines(images[i], n)}

\* the first version alone applies the load bias to what it records
V1RecordsBiasedAddresses ==
    gateSt["syms"] = "done" =>
        \A n \in DOMAIN symTab :
           /\ n \in DefinedObjects
           /\ symTab[n][1] = FirstDefinition(n).value + Bias(FirstImage(n))

\* C19: the scanner of either version records exactly the symbols of type
\* object whose section index is not undefined, at the raw value for the
\* main program and at the raw value plus the load bias for a module,
\* whichever images failed to load.
C19_ScannerRecordsDataObjects ==
    /\ gateSt["syms"] = "done" =>
         /\ DOMAIN symTab = DefinedObjects
         /\ \A n \in DOMAIN symTab :
              symTab[n][1] = FirstDefinition(n).value + Bias(FirstImage(n))
    /\ gateSt["syms2"] = "done" =>
         /\ DOMAIN symTab2 = DefinedObjects
         /\ \A n \in DOMAIN symTab2 :
              symTab2[n][1] = FirstDefinition(n).value + Bias(FirstImage(n))

\* the part of C19 about which symbols are recorded, for the second version
V2RecordsDataObjects ==
    gateSt["syms2"] = "done" => DOMAIN symTab2 = DefinedObjects

\* the executables under construction and those in the Executable Table
AllExecutables == TableEntries \cup {th[t].ex : t \in Threads}

\* the driver calls a code object's executable is due: create, a definition
\* for each undefined name the Host Symbol Table has, load, freeze
DueCalls(blob) ==
    << <<"create", "">> >>
    \o [k \in DOMAIN SelectSeq(UndefinedSymbols(blob), LAMBDA x : x \in HostSymbols) |->
          <<"define", SelectSeq(UndefinedSymbols(blob), LAMBDA x : x \in HostSymbols)[k]>>]
    \o << <<"load", "">>, <<"freeze", "">> >>

\* C16 (order alone): the calls issued on an executable are a create, then
\* definitions only, then at most one load followed by one freeze.
CallsAreInOrder ==
    \A e \in AllExecutables :
        \A i \in DOMAIN e.log :
           /\ (e.log[i][1] = "create") = (i = 1)
           /\ e.log[i][1] = "load" => i = Len(e.log) - 1
           /\ e.log[i][1] = "freeze" => (i = Len(e.log) /\ e.log[i - 1][1] = "load")

\* C16: the driver calls on every executable the builder returns are, in
\* this order, create, every definition of an undefined symbol of its code
\* object, load, freeze; nothing follows the freeze (stated for the runs in
\* which no driver call fails).
C16_DriverCallOrder ==
    /\ CallsAreInOrder
    /\ faults = 0 =>
         \A e \in TableEntries : e.log # <<>> => e.log = DueCalls(e.blob)

\* C17: the Kernel-Symbol Table is filled only once the Executable Table is
\* complete, and the Executable Table only once the Code-Object Table is
\* complete, whichever accessor is called first; a completed Kernel-Symbol
\* Table means a completed Executable Table, and its agents are agents of
\* the Executable Table.
C17_DependencyOrder ==
    /\ (DOMAIN kernTab # {} \/ \E t \in Threads : th[t].pc = "kern_body") =>
         gateSt["exec"] = "done"
    /\ (DOMAIN execTable # {} \/ \E t \in Threads : th[t].pc \in BuildPcs) =>
         gateSt["cot"] = "done"
    /\ gateSt["kern"] = "done" =>
         /\ gateSt["exec"] = "done"
         /\ DOMAIN kernTab \subseteq DOMAIN execTable

C17_Witness ==
    /\ gateSt["kern"] = "done"
    /\ \A t \in Threads : th[t].mode \in {"none", "kernels"}
    /\ DOMAIN kernTab # {}
    /\ gateRuns["exec"] = 1

\* the part of C18 that holds: a name enters the Pinned-Global Table with a
\* value taken from the Host Symbol Table
PinnedNamesAreHostSymbols ==
    \A n \in DOMAIN globalsTab : n \in DOMAIN symTab /\ globalsTab[n] = symTab[n][1]

\* C18: every name in the Pinned-Global Table has had its host memory
\* pinned already, and the value stored for it is the handle that pin
\* returned (the value stated for the runs in which no driver call fails).
C18_PinnedTableHoldsPinHandle ==
    \A n \in DOMAIN globalsTab :
        /\ pinCalls[n] >= 1
        /\ faults = 0 => globalsTab[n] = PinnedAddress(symTab[n][1])

\* the blobs of an agent's executables, in the order of its list
BlobsOfAgent(a) ==
    IF a \in DOMAIN execTable THEN [i \in DOMAIN execTable[a] |-> execTable[a][i].blob]
    ELSE <<>>

OnePerBlob ==
    \A j \in DOMAIN acc_ \ Unmatched :
        /\ BlobsOfAgent(acc_[j].agent) = cot[acc_[j].isa]
        /\ \A e \in Range(execTable[acc_[j].agent]) : e.agent = acc_[j].agent

\* C20 where no attempt to build the Executable Table has failed
FirstBuildHasOnePerBlob ==
    (gateSt["exec"] = "done" /\ ~gateFailed["exec"]) => OnePerBlob

\* C20: in the completed Executable Table the list of every accelerator
\* whose ISA has an entry in the Code-Object Table holds one executable per
\* blob of that entry, in the blobs' order, each built from its blob and
\* bound to the accelerator's agent (stated for the runs in which no driver
\* call fails).
C20_OneExecutablePerBlob ==
    (gateSt["exec"] = "done" /\ faults = 0) => OnePerBlob

\* the agents of the accelerators the target runtime does not back
NotHsa == {accAll[j].agent : j \in {i \in DOMAIN accAll : ~accAll[i].hsa}}

\* C21: for an accelerator for which is_hsa_accelerator() is false no
\* executable is ever created and no global is defined (none is under
\* construction for its agent or stored in a table), no kernel symbol is
\* recorded, and neither the Executable Table nor the Kernel-Symbol Table
\* has a key for its agent.
C21_OnlyHsaAccelerators ==
    \A a \in NotHsa :
        /\ a \notin DOMAIN execTable
        /\ a \notin DOMAIN kernTab
        /\ \A e \in AllExecutables : e.agent # a
        /\ \A k \in DOMAIN kernTab : \A y \in Range(kernTab[k]) : y.agent # a

C21_Witness ==
    /\ gateSt["kern"] = "done"
    /\ DOMAIN kernTab # {}
    /\ \E j \in DOMAIN accAll : ~accAll[j].hsa /\ accAll[j].isa \in DOMAIN cot

\* a table is the same, or has only gained keys
OnlyGrows(old, new) ==
    \A n \in DOMAIN old : n \in DOMAIN new /\ new[n] = old[n]

C22_Step ==
    /\ gateSt["cot"] = "done" => cot' = cot
    /\ gateSt["syms"] = "done" => symTab' = symTab
    /\ gateSt["exec"] = "done" => execTable' = execTable
    /\ gateSt["kern"] = "done" => kernTab' = kernTab
    /\ kernTab' # kernTab => execTable' = execTable
    /\ OnlyGrows(globalsTab, globalsTab')

\* C22: a table whose construction has completed is not changed by any
\* later step (Code-Object Table, Host Symbol Table, Executable Table,
\* Kernel-Symbol Table), the step that builds the Kernel-Symbol Table leaves
\* the Executable Table as it is, and the Pinned-Global Table only gains
\* entries: none is removed or overwritten.
C22_CompletedTablesAreFrozen ==
    [][C22_Step]_vars

C22_Witness ==
    /\ \A t \in Threads : th[t].pc \in {"returned", "raised"}
    /\ gateSt["kern"] = "done"
    /\ gateRuns["exec"] = 2
    /\ DOMAIN cot # {}
    /\ DOMAIN kernTab # {}
    /\ DOMAIN globalsTab # {}

\* how many times the byte range b was collected
Count(out, b) == Cardinality({i \in DOMAIN out : out[i] = b})

\* C23: when the search has visited every image, the collected byte ranges
\* are those of the host's own image, once, followed by those of the loaded
\* modules in load order, each once (images whose file does not load add
\* nothing).
C23_EveryImageOnce ==
    sect.pc = "done" =>
        /\ sect.out = LoadableKernels(images)
        /\ \A b \in Range(images[1].kernel) :
             images[1].loads => Count(sect.out, b) = 1 /\ sect.out[1] = b

\* the first version collects the host image once and the modules after it
C23_V1Covers ==
    sect.pc = "done" /\ scanVer = 1 => sect.out = LoadableKernels(images)

\* the shared-object version covers a main program loaded at address 0
C23_V2CoversFixedMain ==
    sect.pc = "done" /\ scanVer = 2 /\ images[1].dlpi_addr = 0 =>
        sect.out = LoadableKernels(images)

\* the threads inside associate_code_object_symbols_with_host_allocation
InLinker == {t \in Threads : th[t].pc \in {"lk_check1", "lk_lock", "lk_pin"}}

\* C24: when every request goes through the accessors, at most one thread
\* is inside the Global-Symbol Linker at any time, and that thread is
\* running the body of the Executable Table's gate; so while one thread
\* inserts into the Pinned-Global Table (it holds the pin mutex) no other
\* thread is at the unlocked first check.
C24_LinkerRunsInOneThread ==
    /\ Cardinality(InLinker) <= 1
    /\ \A t \in InLinker : "exec" \in th[t].gates /\ gateSt["exec"] = "running"
    /\ mtx \in Threads => InLinker = {mtx}

C24_Witness ==
    \E t, u \in Threads :
        /\ th[t].pc = "lk_pin"
        /\ mtx = t
        /\ th[u].pc = "exec_gate"

\* the order in which the gates are nested
GateDepth == [g \in {"kern", "exec", "cot", "ks"} |->
                 CASE g = "kern" -> 1 [] g = "exec" -> 2 [] g = "cot" -> 3 [] g = "ks" -> 4]

\* the gate a thread is about to enter
GateAt == [pc \in {"kern_gate", "exec_gate", "cot_gate", "ks_gate"} |->
              CASE pc = "kern_gate" -> "kern" [] pc = "exec_gate" -> "exec"
                [] pc = "cot_gate" -> "cot" [] pc = "ks_gate" -> "ks"]

\* a thread about to enter a gate runs only bodies of outer gates, so never
\* that gate's own; the pin mutex is taken only inside the linker, after the
\* Pinned-Global and Host Symbol gates are done; a gate that is running is
\* run by exactly one thread, and a thread that has ended holds neither a
\* gate nor the mutex
GatesAreNested ==
    /\ \A t \in Threads :
         /\ th[t].gates \subseteq DOMAIN GateDepth
         /\ th[t].pc \in DOMAIN GateAt =>
              \A g \in th[t].gates : GateDepth[g] < GateDepth[GateAt[th[t].pc]]
         /\ \A g \in th[t].gates : gateSt[g] = "running"
         /\ th[t].pc \in {"lk_lock", "lk_pin"} =>
              gateSt["globals"] = "done" /\ gateSt["syms"] = "done"
         /\ mtx = t => th[t].pc = "lk_pin"
    /\ \A t, u \in Threads : t # u => th[t].gates \cap th[u].gates = {}
    /\ \A g \in Gates : gateSt[g] = "running" => \E t \in Threads : g \in th[t].gates
    /\ mtx # "free" => mtx \in Threads /\ th[mtx].pc = "lk_pin"

InAccessor(t) == th[t].pc \notin {"idle", "returned", "raised"}

\* C25: the gates are entered in the fixed nesting order and never by the
\* thread that is running them, and under fair scheduling every call to an
\* accessor eventually returns or raises an error.
C25_NoDeadlock ==
    /\ []GatesAreNested
    /\ \A t \in Threads : InAccessor(t) ~> th[t].pc \in {"returned", "raised"}

C25_Witness ==
    \E t, u \in Threads :
        /\ th[t].pc = "raised"
        /\ th[u].pc = "exec_gate"
        /\ th[u].mode = "kernels"
        /\ gateRuns["exec"] = 1
        /\ gateSt["exec"] = "idle"

\* a step of the scan loop that accepts a container
Accepts == Len(scanSt'.r) > Len(scanSt.r)

\* C26: every step of the scan loop that accepts a container advances the
\* offset by the declared size of the container decoded at that offset, a
\* strictly positive amount, and never past the end of the range; every
\* other step ends the loop.
C26_ScanTerminates ==
    [][ /\ Accepts => /\ scanSt'.offset =
                           scanSt.offset + Bundled_code_header(scanX, scanSt.offset).size
                      /\ scanSt'.offset > scanSt.offset
                      /\ scanSt'.offset <= Len(scanX)
        /\ ~Accepts => ~scanSt'.more ]_vars

\* the first-version loop does so: the distance to the end of the range
\* decreases with every container it accepts
ScanV1Advances ==
    [][ scanVer = 1 =>
          /\ Accepts => /\ scanSt'.offset =
                             scanSt.offset + Bundled_code_header(scanX, scanSt.offset).size
                        /\ Len(scanX) - scanSt'.offset < Len(scanX) - scanSt.offset
                        /\ scanSt'.offset <= Len(scanX)
          /\ ~Accepts => ~scanSt'.more ]_vars

====
